---- MODULE Spec2Model ----
(***************************************************************************)
(* Per-speaker audio capture, segmentation and transcription dispatch of   *)
(* the voice transcription bot (src/unnamed/part_003, lines 672-1488, with *)
(* the transcription service of src/unnamed/part_004 and the speaker model *)
(* of src/models/User.js), and the storage connection manager of           *)
(* src/unnamed/part_000.                                                   *)
(*                                                                         *)
(* The specifications share the variables:                                 *)
(*   Spec          the session registry, the speaker pipelines, their      *)
(*                 frame handler, watchdog, stream events and timers;      *)
(*   SpecReg       the same without frames: commands, membership, stream   *)
(*                 events, watchdog and timers;                            *)
(*   SpecLive      SpecReg with the timers scheduled fairly;               *)
(*   SpecSeg       the frame handler of one pipeline;                      *)
(*   SpecDispatch  the utterance dispatcher (lines 1327-1429 of part_003,  *)
(*                 transcribeAndSave, transcribeAudio) applied to          *)
(*                 utterances drawn from bounded sets;                     *)
(*   SpecInFlight  the dispatcher with a session that can be stopped;      *)
(*   SpecLoss      SpecReg with the loss of the voice transport;           *)
(*   SpecScenario  the frame handler fed the frames of one timed run;      *)
(*   SpecClassify  the frame handler over frames of several lengths;       *)
(*   SpecWatch     one pipeline with its watchdog at the stall threshold;  *)
(*   SpecCut       the utterance boundary with the sink swap completed,    *)
(*                 followed by the dispatcher and the closing of the old   *)
(*                 sink;                                                   *)
(*   SpecPrefix    the registry with two guild ids of which one is a       *)
(*                 prefix of the other;                                    *)
(*   SpecStartFail SpecReg with a voice connection that never gets ready;  *)
(*   SpecSetupFail one session in which setting up a pipeline can throw;   *)
(*   SpecStats     utterance boundaries of one pipeline followed by the    *)
(*                 dispatcher, with the speaker statistics;                *)
(*   SpecDb        the storage connection manager of src/unnamed/part_000; *)
(*   SpecDbLive    SpecDb with timers and connection attempts settling.    *)
(***************************************************************************)
EXTENDS Integers, Sequences, FiniteSets, TLC

\* ------------------------------------------------------------------ bounds
MaxInst == 2
MaxConn == 2
MaxStallTicks == 2
MaxRegTicks == 1
MaxRegSessions == 1
MaxSegTicks == 6
MaxUtt == 2
FramePeriod == 100
MaxWatchTicks == 2
MaxCutTicks == 1
MaxCutUtt == 1
MaxStatTicks == 2
MaxSchedules == 6

\* ------------------------------------------------------- program constants
SILENCE_DURATION == 2000
STALL_TIMEOUT == 60000
MIN_SAMPLES == 100
MIN_AUDIO_SIZE == 1000
MAX_RECONNECT_ATTEMPTS == 5
RECONNECT_DELAY == 5000
Null == 0

\* wavEncoder is declared with const (part_003:1159) and assigned again at
\* the utterance boundary (part_003:1293).
WavEncoderDecl == "const"

\* ------------------------------------------------------------- identities
\* Ids are character sequences so that startsWith can be computed.
GuildIds == {<<1>>}
Users == {<<7>>, <<8>>}
Dash == 0

GuildUserId(g, u) == g \o <<Dash>> \o u

Keys == {GuildUserId(g, u) : g \in GuildIds, u \in Users}

StartsWith(s, p) == /\ Len(p) <= Len(s)
                    /\ SubSeq(s, 1, Len(p)) = p

\* ------------------------------------------------------------------ frames
\* A frame is its length and the set of indices holding a non-zero byte.
Frames == { [len |-> 200, nz |-> {}],
            [len |-> 200, nz |-> {0}],
            [len |-> 200, nz |-> {1}] }

SampleSize(f) == IF f.len \div 5 > MIN_SAMPLES THEN f.len \div 5 ELSE MIN_SAMPLES

Step(f) == f.len \div SampleSize(f)

\* for (i = 0; i < chunk.length; i += step) if (chunk[i] !== 0) ...
\* With step 0 the loop reads chunk[0] again and again: it leaves at once
\* when chunk[0] is non-zero and never when it is zero; it is not entered for
\* an empty chunk.
Hangs(f) == f.len > 0 /\ Step(f) = 0 /\ 0 \notin f.nz

ContainsAudio_never(f) == FALSE
ContainsAudio(f) ==
  IF Step(f) = 0
  THEN f.len > 0 /\ 0 \in f.nz
  ELSE \E i \in f.nz : i < f.len /\ i % Step(f) = 0

\* Frames of other lengths, for the classification on its own: the empty
\* frame, frames shorter than MIN_SAMPLES bytes (an Opus packet may be a few
\* bytes long), and frames sampled with strides 1 to 5.
ChunkLens == {0, 3, 50, 99, 100, 150, 200, 300, 400, 500}

Chunks == {f \in [len : ChunkLens, nz : SUBSET {0, 1, 3, 4}] :
             \A i \in f.nz : i < f.len}

\* The registry specification delivers frames with audio only: there a frame
\* matters through lastActivity; the segmenter specification delivers all.
AudioFrames == {f \in Frames : ContainsAudio(f)}

VARIABLES
  now,              \* Date.now()
  connections,      \* guild id -> connection handle (0: none)
  conn,             \* connection handle -> [guild, status]
  nextConn,
  listeners,        \* connection handles with a VoiceStateUpdate listener
  reply,            \* last message of respondToUser to a start or stop command
  present,          \* members currently in the voice channel
  userAudioStreams, \* guildUserId -> pipeline instance (0: none)
  userSessions,     \* guildUserIds with a stored user session
  inst,             \* pipeline instance -> closure state of one setup call
  nextInst,
  timers,           \* pending setTimeout callbacks
  boundaries,       \* utterance boundaries detected so far
  dispatchCalls,    \* dispatcher invocations from the frame handler
  lastCut,          \* history: length of the silence run the last boundary closed
  utt,              \* utterance -> dispatch state
  db                \* storage collaborator

pipeVars == <<now, connections, conn, nextConn, listeners, reply, present,
              userAudioStreams, userSessions, inst, nextInst, timers,
              boundaries, dispatchCalls, lastCut>>

dispVars == <<utt, db>>

vars == <<now, connections, conn, nextConn, listeners, reply, present,
          userAudioStreams, userSessions, inst, nextInst, timers,
          boundaries, dispatchCalls, lastCut, utt, db>>

NoStream == 0
NoConn == 0

Insts == 1..MaxInst
Conns == 1..MaxConn

\* outputPath numbers the recording file the variable outputPath names (the
\* file opened at setup is FirstFile); sink numbers the file that
\* outputStream, the end of the chain the stream is piped into, writes.
FirstFile == 0

\* Closure state of a setup call that has not happened yet.
\* looping holds while the frame handler of the instance is inside a sampling
\* loop that does not end: no callback of the process runs from then on.
\* bare holds for a stream that carries its error listener only: the set-up
\* call threw before it registered the data and close listeners.
NoInst == [key |-> <<>>, conn |-> NoConn, user |-> <<>>,
           open |-> FALSE, watchdog |-> FALSE,
           isSpeaking |-> FALSE, silenceStart |-> Null,
           lastActivity |-> Null, recordingStartTime |-> Null,
           outputPath |-> FirstFile, sink |-> FirstFile,
           runStart |-> Null, looping |-> FALSE, bare |-> FALSE]

\* ------------------------------------------------- pipeline registry state
\* The handlers below are sequential code over the process-wide maps; they
\* are written as functions of a record S of those maps so that one action
\* can run several of them in order.
Maps == [uas |-> userAudioStreams, us |-> userSessions, inst |-> inst,
         next |-> nextInst, timers |-> timers]

\* setupUserAudioReceiver(connection, userId, username), the path on which
\* nothing throws.
SetupUserAudioReceiver(S, c, u) ==
  LET k == GuildUserId(conn[c].guild, u) IN
  IF S.uas[k] # NoStream
  THEN S
  ELSE [S EXCEPT
          !.us = @ \cup {k},
          !.uas[k] = S.next,
          !.inst = IF S.next \in Insts
                   THEN [@ EXCEPT ![S.next] =
                           [key |-> k, conn |-> c, user |-> u,
                            open |-> TRUE, watchdog |-> TRUE,
                            isSpeaking |-> FALSE, silenceStart |-> Null,
                            lastActivity |-> now,
                            recordingStartTime |-> now,
                            outputPath |-> FirstFile, sink |-> FirstFile,
                            runStart |-> Null, looping |-> FALSE,
                            bare |-> FALSE]]
                   ELSE @,
          !.next = @ + 1]

\* setupUserAudioReceiver when a statement of its try block throws: in
\* receiver.subscribe (early: nothing is registered yet), or after
\* userAudioStreams.set, while the sinks are built (late).  catch (setupError)
\* schedules the retry.
SetupThrows(S, c, u, late) ==
  LET k == GuildUserId(conn[c].guild, u) IN
  [S EXCEPT
     !.us = @ \cup {k},
     !.uas[k] = IF late THEN S.next ELSE @,
     !.inst = IF S.next \in Insts
              THEN [@ EXCEPT ![S.next] =
                      [NoInst EXCEPT !.key = k, !.conn = c, !.user = u,
                                     !.open = late, !.bare = late]]
              ELSE @,
     !.next = @ + 1,
     !.timers = @ \cup {[kind |-> "setupRetry", from |-> S.next]}]

\* voiceChannel.members.forEach(member => setupUserAudioReceiver(...))
RECURSIVE SetupMembers(_, _, _)
SetupMembers(S, c, us) ==
  IF us = {} THEN S
  ELSE LET u == CHOOSE x \in us : TRUE
       IN SetupMembers(SetupUserAudioReceiver(S, c, u), c, us \ {u})

\* client emits VoiceStateUpdate to every listener in registration order;
\* each listener calls setupUserAudioReceiver with the connection it captured.
RECURSIVE SetupVia(_, _, _)
SetupVia(S, cs, u) ==
  IF cs = {} THEN S
  ELSE LET c == CHOOSE x \in cs : \A y \in cs : x <= y
       IN SetupVia(SetupUserAudioReceiver(S, c, u), cs \ {c}, u)

\* audioStream.on('close'): clear the watchdog, end the sinks, remove the
\* registry entry of the key, schedule the recovery attempt.
\* After it no callback of the instance reads the segmenter variables of the
\* closure again (no data event on a closed stream, watchdog cleared), so
\* they are kept at their initial values.
Released(r) == [NoInst EXCEPT !.key = r.key, !.conn = r.conn, !.user = r.user]

CloseHandler(S, j) ==
  [S EXCEPT
     !.inst[j] = Released(@),
     !.uas[S.inst[j].key] = NoStream,
     !.timers = @ \cup {[kind |-> "closeRecovery", from |-> j]}]

\* The stream of instance j emits close: the close listener runs if the
\* set-up call got as far as registering it.
EmitClose(S, j) ==
  IF S.inst[j].bare
  THEN [S EXCEPT !.inst[j].open = FALSE]
  ELSE CloseHandler(S, j)

\* stream.destroy(): the stream emits close before any other event runs.
DestroyStream(S, j) ==
  IF S.inst[j].open THEN EmitClose(S, j) ELSE S

\* audioStream.on('error'): only the registry entry of the key is removed.
ErrorHandler_all(S, j) ==
  [S EXCEPT !.uas = [k \in Keys |-> NoStream]]

ErrorHandler(S, j) ==
  [S EXCEPT !.uas[S.inst[j].key] = NoStream]

\* The watchdog interval callback when the stall test is true.
WatchdogReset(S, i) ==
  LET k == S.inst[i].key
      S1 == [S EXCEPT !.inst[i].watchdog = FALSE]
      S2 == IF S1.uas[k] # NoStream
            THEN [DestroyStream(S1, S1.uas[k]) EXCEPT !.uas[k] = NoStream]
            ELSE S1
  IN [S2 EXCEPT !.timers = @ \cup {[kind |-> "cooldown", from |-> i]}]

Stalled_atThreshold(i) == now - inst[i].lastActivity >= STALL_TIMEOUT
Stalled(i) == now - inst[i].lastActivity > STALL_TIMEOUT

\* connection.destroyed is read by the close recovery timer; the voice
\* connection object carries no such property, so the read yields undefined.
ConnectionDestroyed(c) == FALSE

\* Body of a setTimeout callback.
TimerBody(S, t) ==
  LET i == t.from
      c == S.inst[i].conn
      u == S.inst[i].user
      k == S.inst[i].key
  IN IF t.kind = "cooldown"
     THEN SetupUserAudioReceiver(S, c, u)
     ELSE IF t.kind = "setupRetry"
     THEN IF S.uas[k] = NoStream THEN SetupUserAudioReceiver(S, c, u) ELSE S
     ELSE IF S.uas[k] = NoStream /\ c # NoConn /\ ~ConnectionDestroyed(c)
          THEN SetupUserAudioReceiver(S, c, u)
          ELSE S

\* stopTranscription: userAudioStreams.forEach(... startsWith(guildId) ...)
RECURSIVE StopStreams(_, _, _)
StopStreams(S, g, ks) ==
  IF ks = {} THEN S
  ELSE LET k == CHOOSE x \in ks : TRUE
           S1 == IF S.uas[k] # NoStream /\ StartsWith(k, g)
                 THEN [DestroyStream(S, S.uas[k]) EXCEPT !.uas[k] = NoStream]
                 ELSE S
       IN StopStreams(S1, g, ks \ {k})

\* Assign the maps of S to the variables.
Commit(S) ==
  /\ S.next <= MaxInst + 1
  /\ userAudioStreams' = S.uas
  /\ userSessions' = S.us
  /\ inst' = S.inst
  /\ nextInst' = S.next
  /\ timers' = S.timers

\* ------------------------------------------------------------- dispatcher
Utts == 1..MaxUtt
Sizes == {800, 999, 1000}
Texts == {"", "hello"}

\* start is currentStartTime, nextStart the recordingStartTime assigned at the
\* boundary of the utterance, at the value Date.now() returns inside the
\* dispatch, endTime the endTime of transcribeAndSave; sinkEnded holds once
\* currentWavEncoder and currentOutputStream have been ended.
\* loadedTotal and loadedTime are stats.totalTranscriptions and
\* stats.totalSpeakingTime of the user document the dispatch holds in memory,
\* as it loaded or created it.
IdleUtt == [pc |-> "idle", user |-> <<>>, size |-> 0, exists |-> FALSE,
            hasChannel |-> FALSE, path |-> "none", text |-> "",
            providerCalls |-> 0, fallbackCalls |-> 0, posts |-> 0,
            gotText |-> FALSE, intFailed |-> "none", createdUser |-> FALSE,
            result |-> "none",
            start |-> Null, nextStart |-> Null, at |-> Null, endTime |-> Null,
            sinkEnded |-> FALSE, loadedTotal |-> 0, loadedTime |-> 0]

\* history: number of utterance records stored for utterance u
RECURSIVE Count(_, _)
Count(seq, x) ==
  IF seq = <<>> THEN 0
  ELSE (IF Head(seq) = x THEN 1 ELSE 0) + Count(Tail(seq), x)

RECURSIVE SumWrites(_, _, _)
SumWrites(d, us, x) ==
  IF us = {} THEN 0
  ELSE LET w == CHOOSE y \in us : TRUE
       IN Count(d.users[w].transcriptions, x) + SumWrites(d, us \ {w}, x)

StorageWrites(u) == SumWrites(db, Users, u)

\* if (USE_MONGODB && mongoose && mongoose.connection.readyState === 1)
UseIntegrated_configured == db.use
UseIntegrated == db.use /\ db.ready

\* transcribeAndSave: if (stats.size < 1000) return null
TasTooSmall_off(size) == FALSE
TasTooSmall(size) == size < MIN_AUDIO_SIZE

\* transcribeAudio: if (stats.size < 1000) return null
TaTooSmall(size) == size < MIN_AUDIO_SIZE

\* TranscriptionSchema.content is required: an empty string fails validation
ContentValid_any(text) == TRUE
ContentValid(text) == text # ""

\* new User({userId, username, displayName}): no transcription yet
NewUserTranscriptions_withText(u) == <<u>>
NewUserTranscriptions(u) == <<>>

\* transcribeAndSave: catch (error) { ...; return null }.  The promise of
\* transcribeAndSave is therefore never rejected; TasSettled still carries
\* the .catch branch of the caller for a result "rejected".
TasCatch(r) == [r EXCEPT !.result = "null"]

\* textChannel.send(...) guarded by if (textChannel)
Post(r) == IF r.hasChannel THEN [r EXCEPT !.posts = @ + 1] ELSE r

\* .finally(...): the dispatch of the utterance is over
Finish(r) == [r EXCEPT !.pc = "done"]

\* handleTranscription(result)
HandleTranscription(r, k) ==
  IF r.result = "text"
  THEN IF k \in userSessions THEN Post(r) ELSE r
  ELSE r

\* transcribeAudio up to the provider call
TranscribeAudioStart(r) ==
  IF ~r.exists \/ TaTooSmall(r.size)
  THEN [r EXCEPT !.result = "null"]
  ELSE [r EXCEPT !.pc = "taPost", !.providerCalls = @ + 1]

\* transcribeAudio(...).then(handleTranscription) with transcribeAudio
\* already settled, or still waiting for the provider
DirectContinue(r, k) ==
  IF r.pc = "taPost" THEN r ELSE Finish(HandleTranscription(r, k))

\* .then(result => ...) / .catch(error => ...) / .finally(...) on the promise
\* of transcribeAndSave
TasSettled(r, k) ==
  IF r.result = "rejected"
  THEN DirectContinue(TranscribeAudioStart(
                        [r EXCEPT !.fallbackCalls = @ + 1, !.pc = "fallback"]), k)
  ELSE IF r.result = "text" THEN Finish(Post(r)) ELSE Finish(r)

\* transcribeAndSave up to the provider call.  The test of this.apiKey cannot
\* fail here: the process exits at start-up without OPENAI_API_KEY
\* (part_003:696-713); the same holds for API_KEY in transcribeAudio.
TasStart(r, k) ==
  IF ~r.exists \/ TasTooSmall(r.size)
  THEN TasSettled([r EXCEPT !.result = "null"], k)
  ELSE [r EXCEPT !.pc = "tasPost", !.providerCalls = @ + 1, !.endTime = r.at]

\* The dispatch at the utterance boundary (part_003:1327-1406).
StartDispatch(r, k) ==
  IF UseIntegrated
  THEN TasStart([r EXCEPT !.path = "integrated"], k)
  ELSE DirectContinue(TranscribeAudioStart([r EXCEPT !.path = "direct"]), k)

TextResult(t) == IF t = "" THEN "empty" ELSE "text"

UttKey(u) == GuildUserId(CHOOSE g \in GuildIds : TRUE, utt[u].user)

\* ------------------------------------------------------- pipeline actions
regVars == <<userAudioStreams, userSessions, inst, nextInst, timers>>
segVars == <<boundaries, dispatchCalls, lastCut>>
sessVars == <<connections, conn, nextConn, listeners, reply>>

\* Assigning to a binding declared with const throws a TypeError.
AssignThrows(decl) == decl = "const"

\* if (connections.has(voiceChannel.guild.id))
AlreadyActive_never(g) == FALSE
AlreadyActive(g) == connections[g] # NoConn

\* startTranscription up to the await of entersState
StartTranscription(g) ==
  /\ ~AlreadyActive(g)
  /\ nextConn <= MaxConn
  /\ conn' = [conn EXCEPT ![nextConn] = [guild |-> g, status |-> "connecting"]]
  /\ connections' = [connections EXCEPT ![g] = nextConn]
  /\ listeners' = listeners \cup {nextConn}
  /\ nextConn' = nextConn + 1
  /\ UNCHANGED <<now, reply, present, regVars, segVars, dispVars>>

\* startTranscription when connections.has(guild.id): replies and returns
StartConflict(g) ==
  /\ AlreadyActive(g)
  /\ reply' = "already active"
  /\ UNCHANGED <<now, connections, conn, nextConn, listeners, present,
                 regVars, segVars, dispVars>>

\* connection.on(VoiceConnectionStatus.Ready, ...)
ConnectionReady(c) ==
  /\ conn[c].status \in {"connecting", "timedOut"}
  /\ conn' = [conn EXCEPT ![c].status = "ready"]
  /\ reply' = "started"
  /\ Commit(SetupMembers(Maps, c,
                         {u \in Users : <<conn[c].guild, u>> \in present}))
  /\ UNCHANGED <<now, connections, nextConn, listeners, present,
                 segVars, dispVars>>

\* await entersState(connection, Ready, 30_000) rejects: catch (error) logs
\* and replies.  The connection is not destroyed and goes on connecting.
StartTimeout(c) ==
  /\ conn[c].status = "connecting"
  /\ conn' = [conn EXCEPT ![c].status = "timedOut"]
  /\ reply' = "failed"
  /\ UNCHANGED <<now, connections, nextConn, listeners, present,
                 regVars, segVars, dispVars>>

\* stopTranscription
StopTranscription(g) ==
  /\ connections[g] # NoConn
  /\ conn' = [conn EXCEPT ![connections[g]].status = "destroyed"]
  /\ connections' = [connections EXCEPT ![g] = NoConn]
  /\ reply' = "stopped"
  /\ Commit(StopStreams(Maps, g, DOMAIN userAudioStreams))
  /\ UNCHANGED <<now, nextConn, listeners, present, segVars, dispVars>>

\* connection.on(VoiceConnectionStatus.Disconnected, ...) and
\* connection.on(VoiceConnectionStatus.Destroyed, ...) when the transport is
\* lost: both handlers write a log line
ConnectionLost(c) ==
  /\ conn[c].status \in {"connecting", "ready"}
  /\ conn' = [conn EXCEPT ![c].status = "lost"]
  /\ UNCHANGED <<now, connections, nextConn, listeners, reply, present,
                 regVars, segVars, dispVars>>

\* client.on(Events.VoiceStateUpdate, ...) for a member joining the channel
Join(g, u) ==
  /\ <<g, u>> \notin present
  /\ present' = present \cup {<<g, u>>}
  /\ Commit(SetupVia(Maps, {c \in listeners : conn[c].guild = g}, u))
  /\ UNCHANGED <<now, sessVars, segVars, dispVars>>

\* a member joins and the setupUserAudioReceiver call of the listener throws
JoinSetupThrows(g, u, late) ==
  /\ <<g, u>> \notin present
  /\ connections[g] \in listeners
  /\ userAudioStreams[GuildUserId(g, u)] = NoStream
  /\ present' = present \cup {<<g, u>>}
  /\ Commit(SetupThrows(Maps, connections[g], u, late))
  /\ UNCHANGED <<now, sessVars, segVars, dispVars>>

\* a member leaves the channel: no listener acts on it
Leave(g, u) ==
  /\ <<g, u>> \in present
  /\ present' = present \ {<<g, u>>}
  /\ UNCHANGED <<now, sessVars, regVars, segVars, dispVars>>

\* Time passes.  The registry specification advances the clock by more than
\* the stall timeout at once, the segmenter specification by fractions of the
\* silence threshold.
StallStep == STALL_TIMEOUT + 1000
SegSteps == {1000, 2000}

Tick(dt, max) ==
  /\ now + dt <= max
  /\ now' = now + dt
  /\ UNCHANGED <<sessVars, present, regVars, segVars, dispVars>>

\* setInterval callback of instance i
WatchdogTick(i) ==
  /\ inst[i].watchdog
  /\ IF Stalled(i) THEN Commit(WatchdogReset(Maps, i)) ELSE UNCHANGED regVars
  /\ UNCHANGED <<now, sessVars, present, segVars, dispVars>>

\* the stream of instance i emits error
StreamError(i) ==
  /\ inst[i].open
  /\ Commit(ErrorHandler(Maps, i))
  /\ UNCHANGED <<now, sessVars, present, segVars, dispVars>>

\* wavEncoder.on('error') / outputStream.on('error') of instance i: logged
SinkError(i) ==
  /\ inst[i].watchdog
  /\ UNCHANGED vars

\* the stream of instance i ends and emits close
StreamClose(i) ==
  /\ inst[i].open
  /\ Commit(EmitClose(Maps, i))
  /\ UNCHANGED <<now, sessVars, present, segVars, dispVars>>

\* a setTimeout callback runs
TimerFire(t) ==
  /\ t \in timers
  /\ Commit(TimerBody([Maps EXCEPT !.timers = @ \ {t}], t))
  /\ UNCHANGED <<now, sessVars, present, segVars, dispVars>>

\* audioStream.on('data', chunk => ...) of instance i
DataHandler(i, f) ==
  LET r == inst[i]
      ca == ContainsAudio(f)
      run == IF ca THEN Null ELSE IF r.runStart = Null THEN now ELSE r.runStart
      r1 == [r EXCEPT !.lastActivity = now, !.runStart = run]
      boundary == /\ ~ca /\ r.isSpeaking
                  /\ r.silenceStart # Null
                  /\ now - r.silenceStart > SILENCE_DURATION
  IN /\ r.open /\ ~r.bare
     /\ \A j \in Insts : ~inst[j].looping
     /\ IF Hangs(f)
        THEN /\ inst' = [inst EXCEPT ![i] =
                           [r EXCEPT !.lastActivity = now, !.looping = TRUE]]
             /\ UNCHANGED <<boundaries, lastCut, dispatchCalls, utt>>
        ELSE IF boundary
           THEN /\ inst' = [inst EXCEPT ![i] =
                              [r1 EXCEPT !.isSpeaking = FALSE,
                                         !.recordingStartTime = now,
                                         !.outputPath = @ + 1,
                                         !.sink = IF AssignThrows(WavEncoderDecl)
                                                  THEN @ ELSE r.outputPath + 1]]
                /\ boundaries' = boundaries + 1
                /\ lastCut' = now - run
                /\ IF AssignThrows(WavEncoderDecl)
                   THEN \* caught by catch (processingError)
                        UNCHANGED <<dispatchCalls, utt>>
                   ELSE /\ dispatchCalls' = dispatchCalls + 1
                        /\ \E u \in Utts, sz \in Sizes, ch \in BOOLEAN :
                             /\ utt[u].pc = "idle"
                             /\ utt' = [utt EXCEPT ![u] =
                                  StartDispatch(
                                    [IdleUtt EXCEPT !.user = r.user, !.size = sz,
                                                    !.exists = TRUE,
                                                    !.hasChannel = ch,
                                                    !.start = r.recordingStartTime,
                                                    !.nextStart = now,
                                                    !.at = now],
                                    r.key)]
           ELSE /\ inst' = [inst EXCEPT ![i] =
                              IF ca /\ ~r.isSpeaking
                              THEN [r1 EXCEPT !.isSpeaking = TRUE,
                                              !.silenceStart = Null]
                              ELSE IF ~ca /\ r.isSpeaking /\ r.silenceStart = Null
                              THEN [r1 EXCEPT !.silenceStart = now]
                              ELSE r1]
                /\ UNCHANGED <<boundaries, lastCut, dispatchCalls, utt>>
     /\ UNCHANGED <<now, sessVars, present, userAudioStreams, userSessions,
                    nextInst, timers, db>>

\* ----------------------------------------------------- dispatcher actions
\* An utterance is handed to the dispatcher.
DispatchUtterance(u, usr, sz, ex, ch) ==
  /\ utt[u].pc = "idle"
  /\ utt' = [utt EXCEPT ![u] =
               StartDispatch([IdleUtt EXCEPT !.user = usr, !.size = sz,
                                             !.exists = ex, !.hasChannel = ch,
                                             !.at = now],
                             GuildUserId(CHOOSE g \in GuildIds : TRUE, usr))]
  /\ UNCHANGED <<pipeVars, db>>

\* The code of an utterance boundary of pipeline i with the assignment to
\* wavEncoder taken as done: the timestamps and the switch of the sink
\* (lines 1277-1322), then the dispatch.  Date.now() is read at line 1289 and
\* again inside transcribeAndSave, after the file checks: the second read
\* returns the same millisecond or a later one (d).
ClockDrift == {0, 1}

BoundaryDispatch(i, u, sz, ch, d) ==
  LET r == inst[i] IN
  /\ r.open
  /\ utt[u].pc = "idle"
  /\ inst' = [inst EXCEPT ![i].recordingStartTime = now,
                          ![i].outputPath = @ + 1,
                          ![i].sink = r.outputPath + 1,
                          ![i].isSpeaking = FALSE,
                          ![i].lastActivity = now]
  /\ now' = now + d
  /\ boundaries' = boundaries + 1
  /\ dispatchCalls' = dispatchCalls + 1
  /\ utt' = [utt EXCEPT ![u] =
               StartDispatch([IdleUtt EXCEPT !.user = r.user, !.size = sz,
                                             !.exists = TRUE, !.hasChannel = ch,
                                             !.start = r.recordingStartTime,
                                             !.nextStart = now,
                                             !.at = now + d],
                             r.key)]
  /\ UNCHANGED <<sessVars, present, userAudioStreams, userSessions, nextInst,
                 timers, lastCut, db>>

\* .finally(() => { ...; setTimeout(() => { currentWavEncoder.end();
\* currentOutputStream.end() }, 500) }): the timer callback
EndOldSink(u) ==
  /\ utt[u].pc = "done"
  /\ ~utt[u].sinkEnded
  /\ utt' = [utt EXCEPT ![u].sinkEnded = TRUE]
  /\ UNCHANGED <<pipeVars, db>>

\* transcribeAndSave: axios.post resolves with response.data.text = t
TasProviderReply(u, t) ==
  LET r == [utt[u] EXCEPT !.text = t, !.gotText = (@ \/ t # "")] IN
  /\ utt[u].pc = "tasPost"
  /\ utt' = [utt EXCEPT ![u] =
               IF ~db.ready   \* User.db.readyState !== 1
               THEN TasSettled([r EXCEPT !.result = TextResult(t)], UttKey(u))
               ELSE [r EXCEPT !.pc = "tasFind"]]
  /\ UNCHANGED <<pipeVars, db>>

\* transcribeAndSave: axios.post rejects (timeout, non-2xx)
TasProviderFail(u) ==
  /\ utt[u].pc = "tasPost"
  /\ utt' = [utt EXCEPT ![u] =
               TasSettled(TasCatch([@ EXCEPT !.intFailed = "provider"]),
                          UttKey(u))]
  /\ UNCHANGED <<pipeVars, db>>

\* transcribeAndSave: User.findOne resolves with the stored document or null
TasFindReply(u) ==
  LET d == db.users[utt[u].user] IN
  /\ utt[u].pc = "tasFind"
  /\ utt' = [utt EXCEPT ![u] =
               IF d.exists
               THEN [@ EXCEPT !.pc = "tasAdd", !.loadedTotal = d.total,
                              !.loadedTime = d.time]
               ELSE [@ EXCEPT !.pc = "tasCreate"]]
  /\ UNCHANGED <<pipeVars, db>>

\* transcribeAndSave: user.save() of the new user resolves, or rejects with
\* a duplicate key error when the user id is already stored
TasCreateReply(u) ==
  LET usr == utt[u].user IN
  /\ utt[u].pc = "tasCreate"
  /\ IF db.users[usr].exists
     THEN /\ utt' = [utt EXCEPT ![u] =
                       TasSettled(TasCatch([@ EXCEPT !.intFailed = "storage"]),
                                  UttKey(u))]
          /\ UNCHANGED db
     ELSE /\ utt' = [utt EXCEPT ![u].pc = "tasAdd", ![u].createdUser = TRUE]
          /\ db' = [db EXCEPT !.users[usr] =
                      [exists |-> TRUE,
                       transcriptions |-> NewUserTranscriptions(u),
                       total |-> 0, time |-> 0]]
  /\ UNCHANGED pipeVars

\* const duration = startTime ? endTime - startTime : 0
Duration(r) == IF r.start = Null THEN 0 ELSE r.endTime - r.start

\* transcribeAndSave: user.addTranscription(...) resolves, or rejects on the
\* schema validation of the content.  addTranscription changes the document
\* in memory and saves it: the save appends the pushed array element to the
\* stored array and sets each changed scalar path to its value in memory.
TasAddReply(u) ==
  LET usr == utt[u].user IN
  /\ utt[u].pc = "tasAdd"
  /\ IF ContentValid(utt[u].text)
     THEN /\ db' = [db EXCEPT
                      !.users[usr].transcriptions = Append(@, u),
                      !.users[usr].total = utt[u].loadedTotal + 1,
                      !.users[usr].time =
                         utt[u].loadedTime + Duration(utt[u])]
          /\ utt' = [utt EXCEPT ![u] =
                       TasSettled([@ EXCEPT !.result = TextResult(utt[u].text)],
                                  UttKey(u))]
     ELSE /\ utt' = [utt EXCEPT ![u] =
                       TasSettled(TasCatch([@ EXCEPT !.intFailed = "validation"]),
                                  UttKey(u))]
          /\ UNCHANGED db
  /\ UNCHANGED pipeVars

\* transcribeAndSave: a storage call rejects
TasStorageFail(u) ==
  /\ utt[u].pc \in {"tasFind", "tasCreate", "tasAdd"}
  /\ utt' = [utt EXCEPT ![u] =
               TasSettled(TasCatch([@ EXCEPT !.intFailed = "storage"]),
                          UttKey(u))]
  /\ UNCHANGED <<pipeVars, db>>

\* transcribeAudio: axios.post resolves with response.data.text = t
TaProviderReply(u, t) ==
  /\ utt[u].pc = "taPost"
  /\ utt' = [utt EXCEPT ![u] =
               Finish(HandleTranscription(
                 [@ EXCEPT !.text = t, !.gotText = (@ \/ t # ""),
                           !.result = IF t # "" THEN "text" ELSE "null"],
                 UttKey(u)))]
  /\ UNCHANGED <<pipeVars, db>>

\* transcribeAudio: axios.post rejects
TaProviderFail(u) ==
  /\ utt[u].pc = "taPost"
  /\ utt' = [utt EXCEPT ![u] =
               Finish(HandleTranscription([@ EXCEPT !.result = "null"],
                                          UttKey(u)))]
  /\ UNCHANGED <<pipeVars, db>>

\* mongoose.connection.readyState becomes 1, or leaves 1.  The dispatcher
\* reads nothing else of the connection; the listeners of these events and
\* the reconnection they start are the actions of the connection manager
\* (DbConnectedEvent, DbDisconnectedEvent).
DbConnected ==
  /\ db.use /\ ~db.ready
  /\ db' = [db EXCEPT !.ready = TRUE]
  /\ UNCHANGED <<pipeVars, utt>>

DbDisconnected ==
  /\ db.ready
  /\ db' = [db EXCEPT !.ready = FALSE]
  /\ UNCHANGED <<pipeVars, utt>>

\* --------------------------------------------------------- specifications
NoUsers == [u \in Users |-> [exists |-> FALSE, transcriptions |-> <<>>,
                            total |-> 0, time |-> 0]]

\* ---------------------------------------------- storage connection manager
\* database/index.js.  isConnecting and reconnectAttempts are its variables,
\* pending the reconnection timers not yet run, shuttingDown the value
\* 'shutdown' of process.env.NODE_ENV.  inFlight counts the calls of
\* mongoose.connect that have not settled, scheduled the timers set so far,
\* started holds once the bot has called connectDatabase, and log is the
\* last message of the manager.
Storage(use, ready) ==
  [use |-> use, ready |-> ready, users |-> NoUsers,
   isConnecting |-> FALSE, reconnectAttempts |-> 0, pending |-> {},
   shuttingDown |-> FALSE, inFlight |-> 0, scheduled |-> 0,
   started |-> FALSE, log |-> "none"]

RECURSIVE Pow2(_)
Pow2(n) == IF n = 0 THEN 1 ELSE 2 * Pow2(n - 1)

\* RECONNECT_DELAY * Math.pow(2, reconnectAttempts - 1)
BackoffDelay(n) == RECONNECT_DELAY * Pow2(n - 1)

\* if (reconnectAttempts >= MAX_RECONNECT_ATTEMPTS) { ...; return }
AtLimit_never(a) == FALSE
AtLimit(a) == a >= MAX_RECONNECT_ATTEMPTS

\* attemptReconnection()
AttemptReconnection(d) ==
  IF AtLimit(d.reconnectAttempts)
  THEN [d EXCEPT !.log = "exceeded"]
  ELSE LET n == d.reconnectAttempts + 1 IN
       [d EXCEPT !.reconnectAttempts = n,
                 !.scheduled = @ + 1,
                 !.pending = @ \cup {[id |-> d.scheduled + 1, n |-> n,
                                      delay |-> BackoffDelay(n)]},
                 !.log = "scheduled"]

\* initDatabaseConnection() up to the await of mongoose.connect
InitDatabaseConnection(d) ==
  IF d.isConnecting
  THEN [d EXCEPT !.log = "in progress"]
  ELSE [d EXCEPT !.isConnecting = TRUE, !.inFlight = @ + 1,
                 !.log = "connecting"]

\* mongoose.connection.on('disconnected', ...)
OnDisconnected(d) ==
  IF ~d.isConnecting /\ ~d.shuttingDown THEN AttemptReconnection(d) ELSE d

\* mongoose.connection.on('connected', ...)
OnConnected(d) == [d EXCEPT !.reconnectAttempts = 0]

\* client.once(ClientReady): if (USE_MONGODB) await connectDatabase()
ConnectDatabase ==
  /\ db.use /\ ~db.started
  /\ db' = InitDatabaseConnection([db EXCEPT !.started = TRUE])
  /\ UNCHANGED <<pipeVars, utt>>

\* the callback of a reconnection timer
ReconnectTimerFire(t) ==
  /\ t \in db.pending
  /\ db' = InitDatabaseConnection([db EXCEPT !.pending = @ \ {t}])
  /\ UNCHANGED <<pipeVars, utt>>

\* await mongoose.connect(...) resolves: the connection has emitted
\* connected, then the function resets the counter and the flag
ConnectResolves ==
  /\ db.inFlight > 0
  /\ db' = [OnConnected([db EXCEPT !.ready = TRUE]) EXCEPT
              !.reconnectAttempts = 0, !.isConnecting = FALSE,
              !.inFlight = @ - 1, !.log = "connected"]
  /\ UNCHANGED <<pipeVars, utt>>

\* await mongoose.connect(...) rejects: catch (error) clears the flag.  The
\* connection may have emitted disconnected as it gave up (ev), which is
\* before the rejection reaches the function.
ConnectRejects(ev) ==
  /\ db.inFlight > 0 /\ ~db.ready
  /\ db' = [(IF ev THEN OnDisconnected(db) ELSE db) EXCEPT
              !.isConnecting = FALSE, !.inFlight = @ - 1, !.log = "failed"]
  /\ UNCHANGED <<pipeVars, utt>>

\* The connection emits disconnected.  Nothing in the manager restricts
\* when the event may come, so it may come at any time after the start.
DbDisconnectedEvent ==
  /\ db.started /\ db.scheduled < MaxSchedules
  /\ db' = OnDisconnected([db EXCEPT !.ready = FALSE])
  /\ UNCHANGED <<pipeVars, utt>>

\* The connection emits connected without a call of the manager: the driver
\* has found the server again.
DbConnectedEvent ==
  /\ db.started /\ ~db.ready
  /\ db' = OnConnected([db EXCEPT !.ready = TRUE])
  /\ UNCHANGED <<pipeVars, utt>>

\* process.on('SIGINT'): process.env.NODE_ENV = 'shutdown'
Sigint ==
  /\ ~db.shuttingDown
  /\ db' = [db EXCEPT !.shuttingDown = TRUE]
  /\ UNCHANGED <<pipeVars, utt>>


Init ==
  /\ now = 1000
  /\ connections = [g \in GuildIds |-> NoConn]
  /\ conn = [c \in Conns |-> [guild |-> <<>>, status |-> "none"]]
  /\ nextConn = 1
  /\ listeners = {}
  /\ reply = "none"
  /\ present = {}
  /\ userAudioStreams = [k \in Keys |-> NoStream]
  /\ userSessions = {}
  /\ inst = [i \in Insts |-> NoInst]
  /\ nextInst = 1
  /\ timers = {}
  /\ boundaries = 0
  /\ dispatchCalls = 0
  /\ lastCut = -1
  /\ utt = [u \in Utts |-> IdleUtt]
  /\ db = Storage(TRUE, TRUE)

Next ==
  \/ \E g \in GuildIds : StartTranscription(g)
  \/ \E g \in GuildIds : StartConflict(g)
  \/ \E c \in Conns : ConnectionReady(c)
  \/ \E g \in GuildIds : StopTranscription(g)
  \/ \E g \in GuildIds, u \in Users : Join(g, u)
  \/ \E g \in GuildIds, u \in Users : Leave(g, u)
  \/ Tick(StallStep, 1000 + MaxStallTicks * StallStep)
  \/ \E i \in Insts : WatchdogTick(i)
  \/ \E i \in Insts : StreamError(i)
  \/ \E i \in Insts : SinkError(i)
  \/ \E i \in Insts : StreamClose(i)
  \/ \E t \in timers : TimerFire(t)
  \/ \E i \in Insts, f \in AudioFrames : DataHandler(i, f)

Spec == Init /\ [][Next]_vars

\* The registry without frames, with its own bounds on the clock and on the
\* number of sessions run one after the other.
SessionsEnded == Cardinality({c \in Conns : conn[c].status = "destroyed"})

NextReg ==
  \/ \E g \in GuildIds : SessionsEnded < MaxRegSessions /\ StartTranscription(g)
  \/ \E g \in GuildIds : StartConflict(g)
  \/ \E c \in Conns : ConnectionReady(c)
  \/ \E g \in GuildIds : StopTranscription(g)
  \/ \E g \in GuildIds, u \in Users : Join(g, u)
  \/ \E g \in GuildIds, u \in Users : Leave(g, u)
  \/ Tick(StallStep, 1000 + MaxRegTicks * StallStep)
  \/ \E i \in Insts : WatchdogTick(i)
  \/ \E i \in Insts : StreamError(i)
  \/ \E i \in Insts : SinkError(i)
  \/ \E i \in Insts : StreamClose(i)
  \/ \E t \in timers : TimerFire(t)

SpecReg == Init /\ [][NextReg]_vars

\* The registry with a transport that can be lost.
NextLoss ==
  \/ \E g \in GuildIds : SessionsEnded < MaxRegSessions /\ StartTranscription(g)
  \/ \E g \in GuildIds : StartConflict(g)
  \/ \E c \in Conns : ConnectionReady(c)
  \/ \E c \in Conns : ConnectionLost(c)
  \/ \E g \in GuildIds : StopTranscription(g)
  \/ \E g \in GuildIds, u \in Users : Join(g, u)
  \/ \E g \in GuildIds, u \in Users : Leave(g, u)
  \/ Tick(StallStep, 1000 + MaxRegTicks * StallStep)
  \/ \E i \in Insts : WatchdogTick(i)
  \/ \E i \in Insts : StreamError(i)
  \/ \E i \in Insts : SinkError(i)
  \/ \E i \in Insts : StreamClose(i)
  \/ \E t \in timers : TimerFire(t)

SpecLoss == Init /\ [][NextLoss]_vars

\* The registry with a session start that can time out.
NextStartFail ==
  \/ \E g \in GuildIds : SessionsEnded < MaxRegSessions /\ StartTranscription(g)
  \/ \E g \in GuildIds : StartConflict(g)
  \/ \E c \in Conns : ConnectionReady(c)
  \/ \E c \in Conns : StartTimeout(c)
  \/ \E g \in GuildIds : StopTranscription(g)
  \/ \E g \in GuildIds, u \in Users : Join(g, u)
  \/ \E g \in GuildIds, u \in Users : Leave(g, u)
  \/ Tick(StallStep, 1000 + MaxRegTicks * StallStep)
  \/ \E i \in Insts : WatchdogTick(i)
  \/ \E i \in Insts : StreamError(i)
  \/ \E i \in Insts : SinkError(i)
  \/ \E i \in Insts : StreamClose(i)
  \/ \E t \in timers : TimerFire(t)

SpecStartFail == Init /\ [][NextStartFail]_vars

\* The registry with fair timers: an armed interval callback and a pending
\* setTimeout callback are run by the event loop; stream events, commands and
\* membership changes are left to the environment.
TimerIds == [kind : {"cooldown", "closeRecovery"}, from : Insts]

FairTimers ==
  /\ \A i \in Insts : WF_vars(WatchdogTick(i))
  /\ \A t \in TimerIds : WF_vars(TimerFire(t))

SpecLive == Init /\ [][NextReg]_vars /\ FairTimers

\* The dispatcher applied to utterances of the speakers of a running session:
\* the userSessions entries exist since setupUserAudioReceiver ran for them.
InitDispatch ==
  /\ now = 1000
  /\ connections = [g \in GuildIds |-> NoConn]
  /\ conn = [c \in Conns |-> [guild |-> <<>>, status |-> "none"]]
  /\ nextConn = 1
  /\ listeners = {}
  /\ reply = "none"
  /\ present = {}
  /\ userAudioStreams = [k \in Keys |-> NoStream]
  /\ userSessions = Keys
  /\ inst = [i \in Insts |-> NoInst]
  /\ nextInst = 1
  /\ timers = {}
  /\ boundaries = 0
  /\ dispatchCalls = 0
  /\ lastCut = -1
  /\ utt = [u \in Utts |-> IdleUtt]
  /\ \E use \in BOOLEAN :
       db = Storage(use, use)

NextDispatch ==
  \/ \E u \in Utts, usr \in Users, sz \in Sizes, ex \in BOOLEAN, ch \in BOOLEAN :
       DispatchUtterance(u, usr, sz, ex, ch)
  \/ \E u \in Utts, t \in Texts : TasProviderReply(u, t)
  \/ \E u \in Utts : TasProviderFail(u)
  \/ \E u \in Utts : TasFindReply(u)
  \/ \E u \in Utts : TasCreateReply(u)
  \/ \E u \in Utts : TasAddReply(u)
  \/ \E u \in Utts : TasStorageFail(u)
  \/ \E u \in Utts, t \in Texts : TaProviderReply(u, t)
  \/ \E u \in Utts : TaProviderFail(u)
  \/ DbConnected
  \/ DbDisconnected

SpecDispatch == InitDispatch /\ [][NextDispatch]_vars

\* The dispatcher during a session that can be stopped: the session of the
\* guild is running with a pipeline for every speaker, utterances are
\* dispatched while it runs, and their dispatches end before or after the stop.
InitInFlight ==
  LET g == CHOOSE x \in GuildIds : TRUE
      u1 == CHOOSE x \in Users : TRUE
      u2 == CHOOSE x \in Users : x # u1
      Pipe(u) == [NoInst EXCEPT !.key = GuildUserId(g, u), !.conn = 1,
                                !.user = u, !.open = TRUE, !.watchdog = TRUE,
                                !.lastActivity = 1000,
                                !.recordingStartTime = 1000]
  IN
  /\ now = 1000
  /\ connections = [x \in GuildIds |-> IF x = g THEN 1 ELSE NoConn]
  /\ conn = [c \in Conns |-> IF c = 1 THEN [guild |-> g, status |-> "ready"]
                                      ELSE [guild |-> <<>>, status |-> "none"]]
  /\ nextConn = 2
  /\ listeners = {1}
  /\ reply = "started"
  /\ present = {<<g, u1>>, <<g, u2>>}
  /\ userAudioStreams = [x \in Keys |-> IF x = GuildUserId(g, u1) THEN 1 ELSE 2]
  /\ userSessions = Keys
  /\ inst = [i \in Insts |-> IF i = 1 THEN Pipe(u1)
                              ELSE IF i = 2 THEN Pipe(u2) ELSE NoInst]
  /\ nextInst = 3
  /\ timers = {}
  /\ boundaries = 0
  /\ dispatchCalls = 0
  /\ lastCut = -1
  /\ utt = [x \in Utts |-> IdleUtt]
  /\ \E use \in BOOLEAN :
       db = Storage(use, use)

NextInFlight ==
  \/ \E u \in Utts, usr \in Users, sz \in Sizes, ex \in BOOLEAN, ch \in BOOLEAN :
       /\ \A g \in GuildIds : connections[g] # NoConn
       /\ DispatchUtterance(u, usr, sz, ex, ch)
  \/ \E u \in Utts, t \in Texts : TasProviderReply(u, t)
  \/ \E u \in Utts : TasProviderFail(u)
  \/ \E u \in Utts : TasFindReply(u)
  \/ \E u \in Utts : TasCreateReply(u)
  \/ \E u \in Utts : TasAddReply(u)
  \/ \E u \in Utts : TasStorageFail(u)
  \/ \E u \in Utts, t \in Texts : TaProviderReply(u, t)
  \/ \E u \in Utts : TaProviderFail(u)
  \/ \E g \in GuildIds : StopTranscription(g)

SpecInFlight == InitInFlight /\ [][NextInFlight]_vars

\* The utterance boundary and its dispatch in a session started while the
\* storage may be switched off or not connected: one member is in the
\* channel, the session is started, the pipeline of the member reaches
\* utterance boundaries, and the storage connects and disconnects.
InitCut ==
  /\ now = 1000
  /\ connections = [g \in GuildIds |-> NoConn]
  /\ conn = [c \in Conns |-> [guild |-> <<>>, status |-> "none"]]
  /\ nextConn = 1
  /\ listeners = {}
  /\ reply = "none"
  /\ present = {<<CHOOSE g \in GuildIds : TRUE, CHOOSE u \in Users : TRUE>>}
  /\ userAudioStreams = [k \in Keys |-> NoStream]
  /\ userSessions = {}
  /\ inst = [i \in Insts |-> NoInst]
  /\ nextInst = 1
  /\ timers = {}
  /\ boundaries = 0
  /\ dispatchCalls = 0
  /\ lastCut = -1
  /\ utt = [u \in Utts |-> IdleUtt]
  /\ \E use \in BOOLEAN :
       db = Storage(use, FALSE)

CutUtts == {u \in Utts : u <= MaxCutUtt}

NextCut ==
  \/ \E g \in GuildIds : StartTranscription(g)
  \/ \E c \in Conns : ConnectionReady(c)
  \/ \E dt \in SegSteps : Tick(dt, 1000 + MaxCutTicks * 1000)
  \/ \E i \in Insts, u \in CutUtts, sz \in Sizes, ch \in BOOLEAN,
        d \in ClockDrift :
       BoundaryDispatch(i, u, sz, ch, d)
  \/ \E u \in Utts, t \in Texts : TasProviderReply(u, t)
  \/ \E u \in Utts : TasProviderFail(u)
  \/ \E u \in Utts : TasFindReply(u)
  \/ \E u \in Utts : TasCreateReply(u)
  \/ \E u \in Utts : TasAddReply(u)
  \/ \E u \in Utts : TasStorageFail(u)
  \/ \E u \in Utts, t \in Texts : TaProviderReply(u, t)
  \/ \E u \in Utts : TaProviderFail(u)
  \/ \E u \in Utts : EndOldSink(u)
  \/ DbConnected
  \/ DbDisconnected

SpecCut == InitCut /\ [][NextCut]_vars

\* The segmenter of one pipeline: a session is running and the pipeline of
\* one speaker was set up at time 1000; frames arrive as time passes.
InitSeg ==
  LET g == CHOOSE x \in GuildIds : TRUE
      u == CHOOSE x \in Users : TRUE
      k == GuildUserId(g, u)
  IN
  /\ now = 1000
  /\ connections = [x \in GuildIds |-> IF x = g THEN 1 ELSE NoConn]
  /\ conn = [c \in Conns |-> IF c = 1 THEN [guild |-> g, status |-> "ready"]
                                      ELSE [guild |-> <<>>, status |-> "none"]]
  /\ nextConn = 2
  /\ listeners = {1}
  /\ reply = "started"
  /\ present = {<<g, u>>}
  /\ userAudioStreams = [x \in Keys |-> IF x = k THEN 1 ELSE NoStream]
  /\ userSessions = {k}
  /\ inst = [i \in Insts |->
               IF i = 1
               THEN [NoInst EXCEPT !.key = k, !.conn = 1, !.user = u,
                                   !.open = TRUE, !.watchdog = TRUE,
                                   !.lastActivity = 1000,
                                   !.recordingStartTime = 1000]
               ELSE NoInst]
  /\ nextInst = 2
  /\ timers = {}
  /\ boundaries = 0
  /\ dispatchCalls = 0
  /\ lastCut = -1
  /\ utt = [x \in Utts |-> IdleUtt]
  /\ db = Storage(TRUE, TRUE)

NextSeg ==
  \/ \E dt \in SegSteps : Tick(dt, 1000 + MaxSegTicks * 1000)
  \/ \E i \in Insts, f \in Frames : DataHandler(i, f)

SpecSeg == InitSeg /\ [][NextSeg]_vars

\* The segmenter of one pipeline fed a fixed sequence of stretches of active
\* and inactive frames, one frame every FramePeriod ms from the set-up on.
Scenario == << [ms |-> 500,  active |-> TRUE],
               [ms |-> 2500, active |-> FALSE],
               [ms |-> 300,  active |-> TRUE],
               [ms |-> 100,  active |-> FALSE],
               [ms |-> 2500, active |-> FALSE] >>

RECURSIVE EndOf(_)
EndOf(n) == IF n = 0 THEN 0 ELSE EndOf(n - 1) + Scenario[n].ms

ScenarioEnd == EndOf(Len(Scenario))

\* whether the frame that begins t ms after the set-up is active
ActiveAt(t) ==
  \E n \in 1..Len(Scenario) :
    /\ EndOf(n - 1) <= t /\ t < EndOf(n)
    /\ Scenario[n].active

ScenarioChunk(t) ==
  IF ActiveAt(t) THEN [len |-> 200, nz |-> {0}] ELSE [len |-> 200, nz |-> {}]

\* ms since the set-up of the pipeline
Elapsed == now - 1000

ScenarioFrame ==
  /\ inst[1].lastActivity < now
  /\ DataHandler(1, ScenarioChunk(Elapsed - FramePeriod))

ScenarioTick ==
  /\ inst[1].lastActivity = now
  /\ Tick(FramePeriod, 1000 + ScenarioEnd)

NextScenario == ScenarioFrame \/ ScenarioTick

SpecScenario == InitSeg /\ [][NextScenario]_vars

\* The watchdog of a pipeline that receives frames: the pipeline of one
\* speaker with its frame handler, watchdog, stream events and timers, the
\* clock advancing by the stall timeout exactly or by more than it.
WatchSteps == {STALL_TIMEOUT, StallStep}

NextWatch ==
  \/ \E dt \in WatchSteps : Tick(dt, 1000 + MaxWatchTicks * StallStep)
  \/ \E i \in Insts, f \in AudioFrames : DataHandler(i, f)
  \/ \E i \in Insts : WatchdogTick(i)
  \/ \E i \in Insts : StreamError(i)
  \/ \E i \in Insts : StreamClose(i)
  \/ \E t \in timers : TimerFire(t)

SpecWatch == InitSeg /\ [][NextWatch]_vars

\* The frame handler of one pipeline on frames of every length.
NextClassify ==
  \/ \E dt \in SegSteps : Tick(dt, 1000 + MaxSegTicks * 1000)
  \/ \E i \in Insts, f \in Chunks : DataHandler(i, f)

SpecClassify == InitSeg /\ [][NextClassify]_vars

\* Two guilds, the id of one a prefix of the id of the other (ids are decimal
\* strings of 17 to 19 digits), each with its own session and pipelines.
PrefixGuilds == {<<1>>, <<1, 2>>}

PrefixKeys == {GuildUserId(g, u) : g \in PrefixGuilds, u \in Users}

InitPrefix ==
  /\ now = 1000
  /\ connections = [g \in PrefixGuilds |-> NoConn]
  /\ conn = [c \in Conns |-> [guild |-> <<>>, status |-> "none"]]
  /\ nextConn = 1
  /\ listeners = {}
  /\ reply = "none"
  /\ present = {}
  /\ userAudioStreams = [k \in PrefixKeys |-> NoStream]
  /\ userSessions = {}
  /\ inst = [i \in Insts |-> NoInst]
  /\ nextInst = 1
  /\ timers = {}
  /\ boundaries = 0
  /\ dispatchCalls = 0
  /\ lastCut = -1
  /\ utt = [u \in Utts |-> IdleUtt]
  /\ db = Storage(TRUE, TRUE)

NextPrefix ==
  \/ \E g \in PrefixGuilds : StartTranscription(g)
  \/ \E g \in PrefixGuilds : StartConflict(g)
  \/ \E c \in Conns : ConnectionReady(c)
  \/ \E g \in PrefixGuilds : StopTranscription(g)
  \/ \E g \in PrefixGuilds, u \in Users : Join(g, u)
  \/ \E g \in PrefixGuilds, u \in Users : Leave(g, u)
  \/ \E i \in Insts : StreamClose(i)
  \/ \E t \in timers : TimerFire(t)

SpecPrefix == InitPrefix /\ [][NextPrefix]_vars

\* A running session whose set-up calls can throw: members join and leave,
\* streams fail and close, the retry and recovery timers run.
InitSetupFail ==
  LET g == CHOOSE x \in GuildIds : TRUE IN
  /\ now = 1000
  /\ connections = [x \in GuildIds |-> IF x = g THEN 1 ELSE NoConn]
  /\ conn = [c \in Conns |-> IF c = 1 THEN [guild |-> g, status |-> "ready"]
                                      ELSE [guild |-> <<>>, status |-> "none"]]
  /\ nextConn = 2
  /\ listeners = {1}
  /\ reply = "started"
  /\ present = {}
  /\ userAudioStreams = [k \in Keys |-> NoStream]
  /\ userSessions = {}
  /\ inst = [i \in Insts |-> NoInst]
  /\ nextInst = 1
  /\ timers = {}
  /\ boundaries = 0
  /\ dispatchCalls = 0
  /\ lastCut = -1
  /\ utt = [u \in Utts |-> IdleUtt]
  /\ db = Storage(TRUE, TRUE)

NextSetupFail ==
  \/ \E g \in GuildIds, u \in Users : Join(g, u)
  \/ \E g \in GuildIds, u \in Users, late \in BOOLEAN :
       JoinSetupThrows(g, u, late)
  \/ \E g \in GuildIds, u \in Users : Leave(g, u)
  \/ \E i \in Insts : StreamError(i)
  \/ \E i \in Insts : StreamClose(i)
  \/ \E t \in timers : TimerFire(t)

SpecSetupFail == InitSetupFail /\ [][NextSetupFail]_vars

\* The utterances of one speaker dispatched on the storage path, their
\* dispatches overlapping: the pipeline of the speaker reaches boundaries as
\* time passes, the provider answers, and the user document is found or
\* created and saved.  A boundary closes an utterance that holds more than
\* the silence threshold of audio.
StatStep == SILENCE_DURATION + 1000

NextStats ==
  \/ \E dt \in SegSteps : Tick(dt, 1000 + MaxStatTicks * StatStep)
  \/ \E i \in Insts, u \in Utts :
       /\ now - inst[i].recordingStartTime > SILENCE_DURATION
       /\ BoundaryDispatch(i, u, MIN_AUDIO_SIZE, TRUE, 0)
  \/ \E u \in Utts, t \in Texts : TasProviderReply(u, t)
  \/ \E u \in Utts : TasFindReply(u)
  \/ \E u \in Utts : TasCreateReply(u)
  \/ \E u \in Utts : TasAddReply(u)

SpecStats == InitSeg /\ [][NextStats]_vars

\* The storage connection manager of a bot that uses the storage.
InitDb ==
  /\ now = 1000
  /\ connections = [g \in GuildIds |-> NoConn]
  /\ conn = [c \in Conns |-> [guild |-> <<>>, status |-> "none"]]
  /\ nextConn = 1
  /\ listeners = {}
  /\ reply = "none"
  /\ present = {}
  /\ userAudioStreams = [k \in Keys |-> NoStream]
  /\ userSessions = {}
  /\ inst = [i \in Insts |-> NoInst]
  /\ nextInst = 1
  /\ timers = {}
  /\ boundaries = 0
  /\ dispatchCalls = 0
  /\ lastCut = -1
  /\ utt = [u \in Utts |-> IdleUtt]
  /\ db = Storage(TRUE, FALSE)

NextDb ==
  \/ ConnectDatabase
  \/ \E t \in db.pending : ReconnectTimerFire(t)
  \/ ConnectResolves
  \/ \E ev \in BOOLEAN : ConnectRejects(ev)
  \/ DbDisconnectedEvent
  \/ DbConnectedEvent
  \/ Sigint

SpecDb == InitDb /\ [][NextDb]_vars

\* The manager with its own steps scheduled fairly: a timer that is set runs,
\* and a call of mongoose.connect settles.  The events of the connection and
\* the signal are left to the environment.
ConnectSettles == ConnectResolves \/ \E ev \in BOOLEAN : ConnectRejects(ev)

FairManager ==
  /\ WF_vars(\E t \in db.pending : ReconnectTimerFire(t))
  /\ WF_vars(ConnectSettles)

SpecDbLive == InitDb /\ [][NextDb]_vars /\ FairManager

\* ------------------------------------------------------------------ claims
Done(u) == utt[u].pc = "done"

\* C1: every utterance boundary the segmenter detects is handed to the
\* dispatcher exactly once: the number of dispatcher invocations equals the
\* number of boundaries detected.
ExactlyOnceDispatch == dispatchCalls = boundaries

\* C2: a boundary is emitted only for a run of consecutive inactive frames
\* longer than the silence threshold, and a pipeline that is still SPEAKING
\* has not seen a run longer than the threshold.
SegmentationCorrect ==
  /\ lastCut = -1 \/ lastCut > 2000
  /\ \A i \in Insts :
       (inst[i].isSpeaking /\ inst[i].runStart # Null)
         => inst[i].lastActivity - inst[i].runStart <= 2000

\* C3: at most one live pipeline instance (subscribed stream with frame
\* handler and armed watchdog) per guild and speaker.
LiveInstances(k) ==
  {i \in Insts : inst[i].key = k /\ inst[i].open /\ inst[i].watchdog}

AtMostOnePipeline == \A k \in Keys : Cardinality(LiveInstances(k)) <= 1

\* C4: a callback of a pipeline instance that has been superseded (another
\* instance is registered for its speaker) changes neither the registry nor
\* the state of the registered instance.
Superseded(i) ==
  /\ inst[i].key \in Keys
  /\ userAudioStreams[inst[i].key] \notin {NoStream, i}

StaleCallbackNoOp ==
  [][\A i \in Insts :
       (Superseded(i) /\ (WatchdogTick(i) \/ StreamClose(i) \/ StreamError(i)))
         => /\ userAudioStreams' = userAudioStreams
            /\ inst'[userAudioStreams[inst[i].key]]
                 = inst[userAudioStreams[inst[i].key]]]_vars

\* C5: when the storage-integrated dispatch of an utterance fails (provider
\* or storage failure inside transcribeAndSave), exactly one fallback call of
\* transcribeAudio occurs, at most one post, and no double persistence.
FallbackExclusive ==
  \A u \in Utts :
    (Done(u) /\ utt[u].path = "integrated"
             /\ utt[u].intFailed \in {"provider", "storage"})
      => /\ utt[u].fallbackCalls = 1
         /\ utt[u].posts <= 1
         /\ StorageWrites(u) <= 1

\* C6: if the provider returned non-empty text and the persistence step
\* failed, the text is still posted to the result sink.
StorageFaultKeepsTranscript ==
  \A u \in Utts :
    (Done(u) /\ utt[u].gotText /\ utt[u].intFailed = "storage"
             /\ utt[u].hasChannel)
      => utt[u].posts >= 1

\* C7: at most one utterance record is stored per utterance.
AtMostOneStorageWrite == \A u \in Utts : StorageWrites(u) <= 1

AtMostOneStorageWriteWitness ==
  \E u \in Utts : Done(u) /\ StorageWrites(u) = 1 /\ utt[u].createdUser

\* C8: exactly one post per utterance for which the provider returned
\* non-empty text while an output channel exists.
ExactlyOnePost ==
  \A u \in Utts :
    (Done(u) /\ utt[u].gotText /\ utt[u].hasChannel) => utt[u].posts = 1

\* C9 as stated: when the transcription ends empty or failed, nothing is
\* posted, nothing at all is written to storage for the utterance, and the
\* provider is not called again beyond the single fallback.
NoWriteOnFailure ==
  \A u \in Utts :
    (Done(u) /\ utt[u].result \in {"null", "empty"})
      => /\ utt[u].posts = 0
         /\ StorageWrites(u) = 0
         /\ ~utt[u].createdUser
         /\ utt[u].fallbackCalls <= 1
         /\ utt[u].providerCalls <= 1 + utt[u].fallbackCalls

\* C9 amended: when the transcription ends empty or failed, nothing is
\* posted, no utterance record is stored, and the provider is not called
\* again beyond the single fallback (a speaker record may have been created).
NoUtteranceWriteOnFailure ==
  \A u \in Utts :
    (Done(u) /\ utt[u].result \in {"null", "empty"})
      => /\ utt[u].posts = 0
         /\ StorageWrites(u) = 0
         /\ utt[u].fallbackCalls <= 1
         /\ utt[u].providerCalls <= 1 + utt[u].fallbackCalls

NoUtteranceWriteOnFailureWitness ==
  \E u \in Utts :
    /\ Done(u) /\ utt[u].result = "null" /\ utt[u].providerCalls = 1
    /\ utt[u].intFailed = "validation" /\ utt[u].createdUser

\* C10: for an utterance whose file is smaller than 1000 bytes the provider
\* is never called, nothing is stored and nothing is posted.
MinSizeFloor ==
  \A u \in Utts :
    (utt[u].pc # "idle" /\ utt[u].size < 1000)
      => /\ utt[u].providerCalls = 0
         /\ utt[u].posts = 0
         /\ StorageWrites(u) = 0
         /\ ~utt[u].createdUser

MinSizeFloorWitness ==
  \E u, v \in Utts :
    /\ Done(u) /\ utt[u].exists /\ utt[u].size = 999
    /\ utt[u].path = "integrated"
    /\ Done(v) /\ utt[v].exists /\ utt[v].size = 800 /\ utt[v].path = "direct"

\* C11: a start request for a guild whose session is registered is reported
\* as a conflict and changes neither the session entry, its connection
\* handle nor any pipeline, and creates no second connection: every guild has
\* at most one connection handle that is not destroyed.
LiveConns(g) ==
  {c \in Conns : conn[c].guild = g /\ conn[c].status \in {"connecting", "ready"}}

StartConflictNoOp ==
  /\ [](\A g \in GuildIds : Cardinality(LiveConns(g)) <= 1)
  /\ [][\A g \in GuildIds :
          (connections[g] # NoConn /\ (StartTranscription(g) \/ StartConflict(g)))
            => /\ reply' = "already active"
               /\ UNCHANGED <<connections, conn, nextConn, listeners, regVars>>]_vars

StartConflictNoOpWitness ==
  \E g \in GuildIds :
    /\ reply = "already active"
    /\ connections[g] # NoConn /\ conn[connections[g]].status = "ready"
    /\ nextConn = 2
    /\ \E k \in Keys : StartsWith(k, g) /\ userAudioStreams[k] # NoStream

\* C12: when a session is stopped, every pipeline of the session is unwound
\* (stream destroyed, sinks ended with the watchdog cleared, registry entry
\* released) before the session entry is removed: at connections.delete, the
\* first registry change of stopTranscription, none of them is left.
ChainsOf(g) ==
  {i \in Insts : /\ inst[i].key \in Keys /\ StartsWith(inst[i].key, g)
                 /\ (inst[i].open \/ inst[i].watchdog)}

RegisteredOf(g) ==
  {k \in Keys : StartsWith(k, g) /\ userAudioStreams[k] # NoStream}

StopUnwindsFirst ==
  [][\A g \in GuildIds :
       StopTranscription(g) => (RegisteredOf(g) = {} /\ ChainsOf(g) = {})]_vars

\* C13: once a session is stopped, no watchdog of a pipeline of its
\* connection is armed, and no recovery timer (watchdog cooldown, close
\* recovery) creates or registers a pipeline on its connection.
Stopped(c) == c # NoConn /\ conn[c].status = "destroyed"

StopDisarms ==
  \A g \in GuildIds :
    StopTranscription(g)
      => \A i \in Insts : inst[i].conn = connections[g] => ~inst'[i].watchdog

NoRecoveryOnStopped ==
  \A t \in timers :
    (TimerFire(t) /\ Stopped(inst[t.from].conn))
      => userAudioStreams' = userAudioStreams

StopIsFinal == [][StopDisarms /\ NoRecoveryOnStopped]_vars

\* C14: a dispatch that was in flight when its session was stopped posts
\* nothing to the result sink afterwards: while no session is registered, no
\* step increases the posts of an utterance.
NoPostAfterStop ==
  [][\A u \in Utts :
       (\A g \in GuildIds : connections[g] = NoConn)
         => utt'[u].posts = utt[u].posts]_vars

\* C15: a join event creates a pipeline only while a session of the guild
\* is registered and only if no pipeline is registered for the speaker; in
\* particular a join after the stop creates nothing.
JoinOnlyWhileActive ==
  [][\A g \in GuildIds, u \in Users :
       (Join(g, u) /\ nextInst' # nextInst)
         => /\ connections[g] # NoConn
            /\ userAudioStreams[GuildUserId(g, u)] = NoStream]_vars

\* C16: a pipeline that has received no frame for longer than the stall
\* timeout is eventually torn down and another pipeline is registered for its
\* speaker, unless its session is stopped.  Where the model has no instance
\* left to create, the registration is not required, and a run in which a
\* pending timer waits for an instance is not held against the program.
StalledPipeline(i) ==
  /\ inst[i].open /\ inst[i].watchdog /\ Stalled(i)
  /\ ~Stopped(inst[i].conn)

Recovered(i) ==
  /\ inst[i].key \in Keys
  /\ ~inst[i].open
  /\ \/ userAudioStreams[inst[i].key] \notin {NoStream, i}
     \/ nextInst > MaxInst

TimerWaits == timers # {} /\ nextInst > MaxInst

StallRecovers ==
  \A i \in Insts :
    StalledPipeline(i)
      ~> (Recovered(i) \/ Stopped(inst[i].conn) \/ TimerWaits)

\* C17: when a recovery timer (watchdog cooldown or close recovery) creates
\* the new pipeline of a speaker, every earlier chain of that speaker is
\* destroyed: no stream of the speaker is still subscribed and piped, and no
\* watchdog of the speaker is armed (the sinks of a chain are ended where its
\* watchdog is cleared).
RecoveryAfterTeardown ==
  [][\A t \in timers :
       (TimerFire(t) /\ nextInst' # nextInst)
         => \A i \in Insts :
              inst[i].key = inst[t.from].key
                => (~inst[i].open /\ ~inst[i].watchdog)]_vars

\* C18: an error, a close or a stall of the chain of one speaker, and the
\* recovery timers they start, leave the session entry and its connection
\* unchanged and change no registry entry and no pipeline state of another
\* speaker; a pipeline they create belongs to the same speaker.
OwnEvent(i) ==
  \/ StreamError(i) \/ SinkError(i) \/ StreamClose(i)
  \/ (Stalled(i) /\ WatchdogTick(i))
  \/ \E t \in timers : t.from = i /\ TimerFire(t)

OthersUntouched(k) ==
  /\ UNCHANGED <<connections, conn>>
  /\ \A k2 \in Keys \ {k} : userAudioStreams'[k2] = userAudioStreams[k2]
  /\ \A j \in Insts :
       IF inst[j].key \in Keys
       THEN inst[j].key # k => inst'[j] = inst[j]
       ELSE inst'[j] = inst[j] \/ inst'[j].key = k

SpeakerIsolation ==
  [][\A i \in Insts :
       inst[i].key \in Keys
         => (OthersUntouched(inst[i].key) \/ ~OwnEvent(i))]_vars

SpeakerIsolationWitness ==
  \E i, j \in Insts :
    /\ inst[i].key \in Keys /\ inst[j].key \in Keys /\ inst[i].key # inst[j].key
    /\ ~inst[i].open /\ [kind |-> "cooldown", from |-> i] \in timers
    /\ inst[j].open /\ inst[j].watchdog /\ userAudioStreams[inst[j].key] = j
    /\ connections[CHOOSE g \in GuildIds : TRUE] = inst[j].conn

\* C19: capture does not wait for dispatch: an utterance detected by the
\* frame handler is handed to a dispatch of its own at once, whatever the
\* state of earlier dispatches, and a step of a dispatch changes nothing of
\* the pipelines.
DetectedIsDispatched ==
  boundaries' # boundaries
    => \E u \in Utts : utt[u].pc = "idle" /\ utt'[u].pc # "idle"

DispatchStepKeepsPipelines ==
  (utt' # utt /\ boundaries' = boundaries) => UNCHANGED pipeVars

DispatchDecoupled ==
  [][DetectedIsDispatched /\ DispatchStepKeepsPipelines]_vars

\* C20: every frame delivered to a pipeline is written to the segment of the
\* utterance it belongs to, the one that began at the last boundary: the
\* chain writes the frame (the pipe listener runs before the frame handler)
\* into the file named at that boundary.
FramesInOwnSegment ==
  [][\A i \in Insts, f \in Frames :
       DataHandler(i, f) => inst[i].sink = inst[i].outputPath]_vars

\* C21: at every utterance boundary a new sink (encoder and output file) is
\* created and the stream is piped into it: after the frame handler has
\* detected a boundary, the chain of the pipeline writes the file that
\* outputPath names from then on, and that file is not the one it wrote before.
BoundaryAt(i) == boundaries' # boundaries /\ inst'[i] # inst[i]

CutoverWiresNewSink ==
  [][\A i \in Insts :
       BoundaryAt(i) => /\ inst'[i].sink # inst[i].sink
                        /\ inst'[i].sink = inst'[i].outputPath]_vars

\* C26: the path of a dispatch is chosen by the state of the storage at the
\* boundary: the direct path exactly if the storage is switched off or not
\* connected then; an utterance on the direct path causes no storage write
\* and no call of transcribeAndSave's fallback, whatever the storage does
\* later; and a start request for a guild without a session registers the
\* session whatever the state of the storage.
PathByReadiness ==
  \A u \in Utts :
    (utt[u].pc = "idle" /\ utt'[u].pc # "idle")
      => (utt'[u].path = "direct") = ~(db.use /\ db.ready)

DirectWritesNothing ==
  \A u \in Utts :
    utt[u].path = "direct"
      => /\ StorageWrites(u) = 0
         /\ ~utt[u].createdUser
         /\ utt[u].fallbackCalls = 0

StartNotBlocked ==
  \A g \in GuildIds :
    (connections[g] = NoConn /\ nextConn <= MaxConn)
      => ENABLED StartTranscription(g)

StorageDegradesToDirect ==
  /\ [](DirectWritesNothing /\ StartNotBlocked)
  /\ [][PathByReadiness]_vars

\* the session was started and became ready while the storage was not
\* connected, an utterance went the direct path and was posted, and the
\* storage connected afterwards
StorageDegradesToDirectWitness ==
  \E u \in Utts :
    /\ reply = "started"
    /\ Done(u) /\ utt[u].path = "direct" /\ utt[u].posts = 1
    /\ db.use /\ db.ready

\* C27: while a pipeline is SPEAKING, a frame classified active leaves
\* silenceStart unset.
SpeakingActiveClears ==
  [][\A i \in Insts, f \in Frames :
       (inst[i].isSpeaking /\ ContainsAudio(f) /\ DataHandler(i, f))
         => inst'[i].silenceStart = Null]_vars

\* C28 as stated: the frame sequence 500 ms active, 2500 ms silent, 300 ms
\* active, 100 ms silent, 2500 ms silent yields exactly one utterance boundary.
ScenarioDone == Elapsed + FramePeriod > ScenarioEnd /\ inst[1].lastActivity = now

ScenarioOneBoundary == ScenarioDone => boundaries = 1

\* C28 amended: the sequence yields exactly two utterance boundaries.  The
\* first is emitted inside the first silent stretch, once that stretch has
\* lasted more than 2000 ms (before the 3000 ms mark, where speech resumes);
\* the second inside the silence that ends the sequence.
ScenarioTwoBoundaries ==
  /\ Elapsed <= 500 + SILENCE_DURATION => boundaries = 0
  /\ (3000 <= Elapsed /\ Elapsed <= 3300 + SILENCE_DURATION) => boundaries = 1
  /\ ScenarioDone => boundaries = 2

ScenarioTwoBoundariesWitness ==
  /\ ScenarioDone /\ boundaries = 2
  /\ ~inst[1].isSpeaking /\ inst[1].recordingStartTime > 1000 + 3300

\* C29: a frame is classified active exactly if a byte of its sampled subset
\* is non-zero, the sampled subset has at least max(100, 20% of the frame
\* length) bytes, or is the whole frame when the frame is shorter than that,
\* and a frame of zeros is never classified active.  The classification is
\* observed on a pipeline that is not speaking: the handler returns, and the
\* pipeline is speaking afterwards exactly if the frame was classified active.
Sampled(f) ==
  IF Step(f) = 0
  THEN {i \in {0} : i < f.len}
  ELSE {i \in 0..(f.len - 1) : i % Step(f) = 0}

EnoughSampled(f) ==
  IF f.len <= SampleSize(f)
  THEN Sampled(f) = 0..(f.len - 1)
  ELSE Cardinality(Sampled(f)) >= SampleSize(f)

ClassifiedAs(i, f) ==
  /\ ~inst'[i].looping
  /\ inst'[i].isSpeaking = (Sampled(f) \cap f.nz # {})
  /\ EnoughSampled(f)
  /\ f.nz = {} => ~inst'[i].isSpeaking

FrameClassification ==
  [][\A i \in Insts, f \in Chunks :
       (~inst[i].isSpeaking /\ DataHandler(i, f)) => ClassifiedAs(i, f)]_vars

\* C30: every delivered frame sets lastActivity to the time of its delivery,
\* and a watchdog tick of a pipeline whose last frame is no older than the
\* stall timeout tears nothing down: it changes neither the registry, nor a
\* pipeline, nor the timers.
FrameRefreshes ==
  \A i \in Insts, f \in Frames :
    DataHandler(i, f) => inst'[i].lastActivity = now

WatchdogSparesFresh ==
  \A i \in Insts :
    (WatchdogTick(i) /\ now - inst[i].lastActivity <= STALL_TIMEOUT)
      => UNCHANGED regVars

WatchdogOnlyOnStall == [][FrameRefreshes /\ WatchdogSparesFresh]_vars

\* the watchdog of pipeline 1 has torn it down after a stall and its cooldown
\* timer has set up pipeline 2, which received a frame and is alive with its
\* watchdog armed when that frame is as old as the stall timeout
WatchdogOnlyOnStallWitness ==
  /\ ~inst[1].open /\ ~inst[1].watchdog
  /\ inst[2].open /\ inst[2].watchdog /\ inst[2].isSpeaking
  /\ userAudioStreams[inst[2].key] = 2
  /\ now - inst[2].lastActivity = STALL_TIMEOUT

\* C22: the audio of an utterance is finalized before it is dispatched: once
\* the dispatcher has checked the size of the file of an utterance (and while
\* the provider call reads it), the sink of the utterance has been ended.
FinalizedBeforeDispatch ==
  \A u \in Utts :
    (utt[u].pc # "idle" /\ utt[u].exists) => utt[u].sinkEnded

\* C23: for every utterance with a recorded end, the end is not earlier than
\* the start, and the start of the next utterance of the speaker (the
\* recordingStartTime assigned at the boundary) is not earlier than that end.
UtteranceSpansMonotonic ==
  \A u \in Utts :
    utt[u].endTime # Null
      => /\ utt[u].endTime >= utt[u].start
         /\ utt[u].nextStart >= utt[u].endTime

\* C24: when the transport of a session is lost (Disconnected or Destroyed),
\* the session entry is removed from the registry together with the registry
\* entries of its pipelines, and a later start request for the guild is not
\* answered with a conflict on account of the lost session.
LostSessionRemoved ==
  \A c \in Conns :
    ConnectionLost(c)
      => /\ connections'[conn[c].guild] = NoConn
         /\ RegisteredOf(conn[c].guild)' = {}

NoConflictWithLost ==
  \A g \in GuildIds :
    (StartConflict(g) /\ reply' # reply) => conn[connections[g]].status # "lost"

TransportLossEndsSession == [][LostSessionRemoved /\ NoConflictWithLost]_vars

\* C25: when a speaker leaves the channel, the pipeline of the speaker is
\* torn down and its registry entry removed, and no recovery timer creates a
\* pipeline for a speaker who is not in the channel.
LeaveTearsDown ==
  \A g \in GuildIds, u \in Users :
    Leave(g, u)
      => /\ userAudioStreams'[GuildUserId(g, u)] = NoStream
         /\ \A i \in Insts :
              inst[i].key = GuildUserId(g, u)
                => (~inst'[i].open /\ ~inst'[i].watchdog)

NoRecoveryWhileAway ==
  \A t \in timers :
    (TimerFire(t) /\ nextInst' # nextInst)
      => <<conn[inst[t.from].conn].guild, inst[t.from].user>> \in present

LeaveDestroysPipeline == [][LeaveTearsDown /\ NoRecoveryWhileAway]_vars

\* C31: the frame handler returns for every frame, whatever its length: no
\* pipeline is ever inside a sampling loop that does not end.
FrameHandlingTerminates == \A i \in Insts : ~inst[i].looping

\* C32: stopping the session of a guild destroys and unregisters only the
\* pipelines of that session: the registry entry and the pipeline state of
\* every pipeline subscribed through the connection of another guild are
\* unchanged, also when the id of the stopped guild is a prefix of the other.
OtherSessionsKept(g) ==
  \A i \in Insts :
    (inst[i].conn # NoConn /\ conn[inst[i].conn].guild # g)
      => /\ inst'[i] = inst[i]
         /\ userAudioStreams'[inst[i].key] = userAudioStreams[inst[i].key]

StopOnlyOwnSession ==
  [][\A g \in PrefixGuilds : StopTranscription(g) => OtherSessionsKept(g)]_vars

\* C33: a session start that fails (the transport is not Ready within the
\* timeout) leaves neither the session entry nor its join listener behind,
\* and a later start request for the guild is not answered with a conflict on
\* account of the failed start.
FailedStartRemoved ==
  \A c \in Conns :
    StartTimeout(c)
      => /\ connections'[conn[c].guild] = NoConn
         /\ c \notin listeners'

NoConflictWithFailed ==
  \A g \in GuildIds :
    (StartConflict(g) /\ reply' # reply)
      => conn[connections[g]].status # "timedOut"

FailedStartLeavesNoTrace ==
  [][FailedStartRemoved /\ NoConflictWithFailed]_vars

\* C34: a set-up call that throws leaves no registry entry for its speaker,
\* and the retry it schedules creates a pipeline unless a pipeline with frame
\* handler and watchdog is registered for the speaker by then.
Working(i) ==
  i # NoStream /\ inst[i].open /\ inst[i].watchdog /\ ~inst[i].bare

FailedSetupUnregistered ==
  \A g \in GuildIds, u \in Users, late \in BOOLEAN :
    JoinSetupThrows(g, u, late)
      => userAudioStreams'[GuildUserId(g, u)] = NoStream

RetryNotSkipped ==
  \A t \in timers :
    (t.kind = "setupRetry" /\ TimerFire(t))
      => \/ nextInst' # nextInst
         \/ Working(userAudioStreams[inst[t.from].key])

FailedSetupRetried == [][FailedSetupUnregistered /\ RetryNotSkipped]_vars

\* C35: a watchdog is armed for a stream instance only if that instance is
\* the one registered for its speaker: a step that removes the registry entry
\* of an instance leaves the watchdog of that instance cleared.
WatchdogOnlyIfRegistered ==
  \A i \in Insts :
    inst[i].watchdog => userAudioStreams[inst[i].key] = i

\* C36: every pipeline that is created while a session is registered for its
\* guild subscribes through the connection of that session, never through
\* the connection of a stopped session, and at most one join listener is
\* installed per guild.
CreatedIn(i) == nextInst <= i /\ i < nextInst'

GuildOf(i) == conn'[inst'[i].conn].guild

UsesCurrentHandle ==
  \A i \in Insts :
    (CreatedIn(i) /\ connections'[GuildOf(i)] # NoConn)
      => inst'[i].conn = connections'[GuildOf(i)]

OneJoinListener ==
  \A g \in GuildIds :
    Cardinality({c \in listeners : conn[c].guild = g}) <= 1

RestartUsesNewHandle == []OneJoinListener /\ [][UsesCurrentHandle]_vars

\* C37: for every stored speaker, stats.totalTranscriptions equals the number
\* of stored transcriptions and stats.totalSpeakingTime the sum of their
\* durations.
RECURSIVE SumDurations(_)
SumDurations(seq) ==
  IF seq = <<>> THEN 0
  ELSE Duration(utt[Head(seq)]) + SumDurations(Tail(seq))

StatsMatchTranscriptions ==
  \A w \in Users :
    db.users[w].exists
      => /\ db.users[w].total = Len(db.users[w].transcriptions)
         /\ db.users[w].time = SumDurations(db.users[w].transcriptions)

\* C38: reconnectAttempts is always between 0 and MAX_RECONNECT_ATTEMPTS; a
\* successful connection resets it to 0; the timer of the n-th attempt is set
\* with the delay RECONNECT_DELAY * 2^(n-1); and no timer is set once the
\* limit is reached or while the process is shutting down.
AttemptsInRange == db.reconnectAttempts \in 0..MAX_RECONNECT_ATTEMPTS

ResetOnSuccess ==
  (ConnectResolves \/ DbConnectedEvent) => db'.reconnectAttempts = 0

NewTimers == db'.pending \ db.pending

BackoffOfNth ==
  \A t \in NewTimers :
    /\ t.n = db.reconnectAttempts + 1
    /\ t.n = db'.reconnectAttempts
    /\ t.delay = RECONNECT_DELAY * 2^(t.n - 1)

NoTimerAtLimit ==
  NewTimers # {}
    => (db.reconnectAttempts < MAX_RECONNECT_ATTEMPTS /\ ~db.shuttingDown)

ReconnectBounded ==
  /\ []AttemptsInRange
  /\ [][ResetOnSuccess /\ BackoffOfNth /\ NoTimerAtLimit]_vars

\* five timers have been set, the fifth with a delay of 80 s, and a further
\* disconnected event has been turned away at the limit
ReconnectBoundedWitness ==
  /\ db.reconnectAttempts = MAX_RECONNECT_ATTEMPTS
  /\ db.log = "exceeded"
  /\ \E t \in db.pending : t.n = 5 /\ t.delay = 80000

\* C39: at most one call of mongoose.connect is in progress and isConnecting
\* holds exactly while one is; and once a reconnection has begun, the
\* connection is retried until it succeeds or MAX_RECONNECT_ATTEMPTS attempts
\* have been made, unless the process shuts down.
OneAttemptAtATime ==
  /\ db.inFlight <= 1
  /\ db.isConnecting <=> db.inFlight = 1

Reconnecting ==
  /\ ~db.ready /\ ~db.shuttingDown
  /\ db.reconnectAttempts >= 1
  /\ db.reconnectAttempts < MAX_RECONNECT_ATTEMPTS

RetryEnds ==
  \/ db.ready
  \/ db.reconnectAttempts = MAX_RECONNECT_ATTEMPTS
  \/ db.shuttingDown

RetryUntilDone == []OneAttemptAtATime /\ (Reconnecting ~> RetryEnds)

\* C40: finding or creating the speaker record always yields the record of
\* the speaker: whenever the save of a new speaker record settles, the
\* dispatch goes on to add its utterance to the record, also when another
\* dispatch of the same speaker has stored the record in the meantime.
FindOrCreateYieldsRecord ==
  [][\A u \in Utts :
       TasCreateReply(u)
         => /\ utt'[u].pc = "tasAdd"
            /\ db'.users[utt[u].user].exists]_vars

====
